---- MODULE Spec2Model ----
(***************************************************************************)
(* State-machine model of LSTMClassifier (src/model.py): construction,     *)
(* weight initialisation, the train/eval mode toggle, the forward pass and *)
(* the optimizer step applied by the surrounding training loop.            *)
(*                                                                         *)
(* Numbers.  Tensor entries are integers.  A dropout probability is kept   *)
(* in tenths (5 is p = 0.5, 10 is p = 1).  A random draw is a function of  *)
(* a seed, as with the tensor library's seeded generator.                  *)
(* The gate arithmetic of the recurrent kernel is not interpreted: a       *)
(* hidden state is identified by its layer, its direction, its shape and   *)
(* the inputs it was computed from.                                        *)
(***************************************************************************)
EXTENDS Integers, Sequences, FiniteSets, TLC

VARIABLES
  cfg,       \* the arguments of LSTMClassifier(...)
  rng,       \* the seed of the generator the initialisers draw from
  status,    \* "new" before __init__, "ok" once it returned, "error" if it raised
  attrs,     \* self.embedding, self.lstm, self.fc, self.dropout (their settings)
  params,    \* named_parameters(): <<[name, data], ...>> in registration order
  training,  \* the training flag of the module and of each child
  last,      \* argument and outcome of the last forward call
  steps      \* optimizer steps applied so far

vars == <<cfg, rng, status, attrs, params, training, last, steps>>

(* ------------------------------ bounds --------------------------------- *)
MaxVocab == 2
MaxLayers == 2
MaxSeq == 2
MaxSteps == 1

VocabSizes == -1..MaxVocab
PaddingIdxs == (0 - (MaxVocab + 1))..MaxVocab
EmbeddingDims == {1, 2}
HiddenDims == {1, 2}
OutputDims == {-1, 0, 1, 2}
LayerCounts == 1..MaxLayers
DropoutRates == {-1, 0, 5, 10, 11}
BatchSizes == {1, 2}
Seeds == {0, 1}
Steps == {1}
Tokens == -1..MaxVocab

Configs ==
  [vocab_size : VocabSizes, embedding_dim : EmbeddingDims, hidden_dim : HiddenDims,
   output_dim : OutputDims, padding_idx : PaddingIdxs, bidirectional : BOOLEAN,
   num_layers : LayerCounts, dropout_rate : DropoutRates]

\* The configurations the forward pass is explored on.
ForwardConfigs ==
  {c \in Configs :
     /\ c.vocab_size >= 1
     /\ c.padding_idx \in {0, -1}
     /\ c.embedding_dim = 2
     /\ c.hidden_dim = 2
     /\ c.output_dim \in {1, 2}
     /\ c.dropout_rate \in {0, 5, 10}}

(* ------------------------------ tensors -------------------------------- *)
\* One pseudo-random entry: stream position k + i of the generator seeded s.
Draw(s, k, i) == ((s + k + i) % 3) - 1

DrawMatrix(s, k, rows, cols) ==
  [r \in 1..rows |-> [c \in 1..cols |-> Draw(s, k, (r - 1) * cols + c)]]

DrawVector(s, k, n) == [i \in 1..n |-> Draw(s, k, i)]

ZeroVector(n) == [i \in 1..n |-> 0]

\* 'weight' in name / 'bias' in name: a parameter name is the sequence of
\* its dot- and underscore-separated parts.
Contains(name, part) == \E i \in 1..Len(name) : name[i] = part

AllZero(v) == \A i \in 1..Len(v) : v[i] = 0

(* --------------------------- construction ------------------------------ *)
\* nn.Embedding(vocab_size, embedding_dim, padding_idx=padding_idx): a
\* negative padding_idx counts from the end of the table.
EmbeddingPaddingIdx(V, pad) == IF pad < 0 THEN V + pad ELSE pad

\* Variant: a padding_idx below 0 is rejected instead of counted from the end.
EmbeddingOkNoNegative(V, E, pad) ==
  /\ pad >= 0
  /\ pad < V
  /\ V >= 0
  /\ E >= 0

\* The checks nn.Embedding makes: the padding_idx assertions, the allocation
\* of a (V, E) table, and the zero-fill of the padding row.
EmbeddingOk(V, E, pad) ==
  /\ pad > 0 => pad < V
  /\ pad < 0 => pad >= 0 - V
  /\ V >= 0
  /\ E >= 0
  /\ EmbeddingPaddingIdx(V, pad) < V

EmbeddingModule(V, E, pad) ==
  [num_embeddings |-> V, embedding_dim |-> E, padding_idx |-> EmbeddingPaddingIdx(V, pad)]

\* The table as nn.Embedding leaves it: sampled, padding row filled with zero.
EmbeddingDefaultWeight(V, E, pad, s) ==
  [r \in 1..V |->
     IF r = EmbeddingPaddingIdx(V, pad) + 1 THEN ZeroVector(E)
     ELSE DrawMatrix(s, 0, V, E)[r]]

\* Variant: the dropout probability is passed whatever the layer count.
LSTMDropoutArgAlways(num_layers, dropout_rate) == dropout_rate

\* dropout=dropout_rate if num_layers > 1 else 0
LSTMDropoutArg(num_layers, dropout_rate) ==
  IF num_layers > 1 THEN dropout_rate ELSE 0

\* nn.LSTM rejects a dropout outside [0, 1].
LSTMOk(dropout) == 0 <= dropout /\ dropout <= 10

NumDirections(bidirectional) == IF bidirectional THEN 2 ELSE 1

LSTMModule(E, H, L, dropout, bidirectional) ==
  [input_size |-> E, hidden_size |-> H, num_layers |-> L, dropout |-> dropout,
   bidirectional |-> bidirectional]

\* Variant: the head is sized for one direction only.
LstmOutputDimSingle(H, bidirectional) == H

\* lstm_output_dim = hidden_dim * 2 if bidirectional else hidden_dim
LstmOutputDim(H, bidirectional) == IF bidirectional THEN H * 2 ELSE H

\* nn.Linear allocates an (out_features, in_features) weight and an
\* (out_features) bias: a negative size is an error, zero is not.
LinearOk(in_features, out_features) == in_features >= 0 /\ out_features >= 0

LinearModule(in_features, out_features) ==
  [in_features |-> in_features, out_features |-> out_features]

\* nn.Dropout(p) raises for p < 0 or p > 1.
DropoutOk(p) == ~(p < 0 \/ p > 10)

DropoutModule(p) == [p |-> p]

LayerTag(l) == <<"l0", "l1", "l2", "l3">>[l + 1]

\* The k-th parameter the recurrent encoder registers (k from 0): layers in
\* order, per layer the forward direction then the reverse one, per
\* direction weight_ih, weight_hh, bias_ih, bias_hh.
LSTMParamLayer(k, D) == k \div (4 * D)
LSTMParamDir(k, D) == (k \div 4) % D
LSTMParamKind(k) == k % 4

LSTMParamName(k, D) ==
  LET kind == <<"weight", "weight", "bias", "bias">>[LSTMParamKind(k) + 1]
      gate == <<"ih", "hh", "ih", "hh">>[LSTMParamKind(k) + 1]
      base == <<"lstm", kind, gate, LayerTag(LSTMParamLayer(k, D))>>
  IN IF LSTMParamDir(k, D) = 1 THEN Append(base, "reverse") ELSE base

\* Default values of the k-th encoder parameter: every entry sampled, the
\* biases included.
LSTMParamDefault(k, m, s) ==
  LET D == NumDirections(m.bidirectional)
      H == m.hidden_size
      inp == IF LSTMParamLayer(k, D) = 0 THEN m.input_size ELSE H * D
  IN CASE LSTMParamKind(k) = 0 -> DrawMatrix(s, k + 1, 4 * H, inp)
       [] LSTMParamKind(k) = 1 -> DrawMatrix(s, k + 1, 4 * H, H)
       [] OTHER -> DrawVector(s, k + 1, 4 * H)

\* named_parameters() of the freshly built modules, in registration order:
\* embedding, lstm, fc (the dropout module has no parameter).
DefaultParams(c, s) ==
  LET m == LSTMModule(c.embedding_dim, c.hidden_dim, c.num_layers,
                      LSTMDropoutArg(c.num_layers, c.dropout_rate), c.bidirectional)
      n == 4 * NumDirections(c.bidirectional) * c.num_layers
      inF == LstmOutputDim(c.hidden_dim, c.bidirectional)
  IN <<[name |-> <<"embedding", "weight">>,
        data |-> EmbeddingDefaultWeight(c.vocab_size, c.embedding_dim, c.padding_idx, s)]>>
     \o [k \in 1..n |-> [name |-> LSTMParamName(k - 1, NumDirections(c.bidirectional)),
                         data |-> LSTMParamDefault(k - 1, m, s)]]
     \o <<[name |-> <<"fc", "weight">>, data |-> DrawMatrix(s, n + 1, c.output_dim, inF)],
          [name |-> <<"fc", "bias">>, data |-> DrawVector(s, n + 2, c.output_dim)]>>

\* nn.init.xavier_uniform_(param): every entry of the tensor is redrawn.
XavierUniform(data, s, k) ==
  DrawMatrix(s, k, Len(data), IF Len(data) = 0 THEN 0 ELSE Len(data[1]))

\* nn.init.zeros_(param)
Zeros(data) == ZeroVector(Len(data))

\* Variant: only the 'weight' branch; biases keep their default values.
InitWeightsNoBias(ps, s) ==
  [k \in 1..Len(ps) |->
     IF Contains(ps[k].name, "weight")
       THEN [name |-> ps[k].name, data |-> XavierUniform(ps[k].data, s, Len(ps) + k)]
       ELSE ps[k]]

\* _init_weights: for name, param in self.named_parameters()
InitWeights(ps, s) ==
  [k \in 1..Len(ps) |->
     IF Contains(ps[k].name, "weight")
       THEN [name |-> ps[k].name, data |-> XavierUniform(ps[k].data, s, Len(ps) + k)]
     ELSE IF Contains(ps[k].name, "bias")
       THEN [name |-> ps[k].name, data |-> Zeros(ps[k].data)]
     ELSE ps[k]]

\* __init__ raises as soon as one of the modules does.
ConfigOk(c) ==
  /\ EmbeddingOk(c.vocab_size, c.embedding_dim, c.padding_idx)
  /\ LSTMOk(LSTMDropoutArg(c.num_layers, c.dropout_rate))
  /\ LinearOk(LstmOutputDim(c.hidden_dim, c.bidirectional), c.output_dim)
  /\ DropoutOk(c.dropout_rate)

Modules(c) ==
  [embedding |-> EmbeddingModule(c.vocab_size, c.embedding_dim, c.padding_idx),
   lstm |-> LSTMModule(c.embedding_dim, c.hidden_dim, c.num_layers,
                       LSTMDropoutArg(c.num_layers, c.dropout_rate), c.bidirectional),
   fc |-> LinearModule(LstmOutputDim(c.hidden_dim, c.bidirectional), c.output_dim),
   dropout |-> DropoutModule(c.dropout_rate)]

ModuleNames == {"self", "embedding", "lstm", "fc", "dropout"}

\* Variant: the flag of the module itself only, the children keep theirs.
SetModeSelfOnly(mode) == [m \in ModuleNames |-> IF m = "self" THEN mode ELSE TRUE]

\* nn.Module.train(mode): sets the flag of the module and of every child.
SetMode(mode) == [m \in ModuleNames |-> mode]

\* The last forward call since the last mode toggle or parameter update.
NoLast == [valid |-> FALSE, x |-> <<>>, status |-> "none", logits |-> <<>>]

InitOn(cs, seeds) ==
  /\ cfg \in cs
  /\ rng \in seeds
  /\ status = "new"
  /\ attrs = <<>>
  /\ params = <<>>
  /\ training = SetMode(TRUE)
  /\ last = NoLast
  /\ steps = 0

Init == InitOn(ForwardConfigs, {0})

InitBuild == InitOn(Configs, Seeds)

\* LSTMClassifier(...): builds the modules, then runs _init_weights.
Construct ==
  /\ status = "new"
  /\ IF ConfigOk(cfg)
       THEN /\ status' = "ok"
            /\ attrs' = Modules(cfg)
            /\ params' = InitWeights(DefaultParams(cfg, rng), rng)
       ELSE /\ status' = "error"
            /\ UNCHANGED <<attrs, params>>
  /\ UNCHANGED <<cfg, rng, training, last, steps>>

\* model.train()
Train ==
  /\ status = "ok"
  /\ training' = SetMode(TRUE)
  /\ last' = NoLast
  /\ UNCHANGED <<cfg, rng, status, attrs, params, steps>>

\* model.eval()
Eval ==
  /\ status = "ok"
  /\ training' = SetMode(FALSE)
  /\ last' = NoLast
  /\ UNCHANGED <<cfg, rng, status, attrs, params, steps>>

(* ------------------------- optimizer step ------------------------------ *)
\* One update of the training loop: every entry moves by the step g, except
\* the embedding row at padding_idx, whose gradient is always zero.
ApplyStep(ps, pad, g) ==
  [k \in 1..Len(ps) |->
     [name |-> ps[k].name,
      data |->
        IF Contains(ps[k].name, "weight")
          THEN [r \in 1..Len(ps[k].data) |->
                  IF ps[k].name[1] = "embedding" /\ r = pad + 1
                    THEN ps[k].data[r]
                    ELSE [c \in 1..Len(ps[k].data[r]) |-> ps[k].data[r][c] - g]]
          ELSE [i \in 1..Len(ps[k].data) |-> ps[k].data[i] - g]]]

OptimizerStep ==
  /\ status = "ok"
  /\ steps < MaxSteps
  /\ \E g \in Steps : params' = ApplyStep(params, attrs.embedding.padding_idx, g)
  /\ steps' = steps + 1
  /\ last' = NoLast
  /\ UNCHANGED <<cfg, rng, status, attrs, training>>

(* ------------------------------ forward -------------------------------- *)
\* Input batches: b rows of t tokens, all 0 except the last token, k.
Inputs ==
  {[i \in 1..b |-> [j \in 1..t |-> IF i = b /\ j = t THEN k ELSE 0]] :
     b \in BatchSizes, t \in 1..MaxSeq, k \in Tokens}

\* Variant: a negative index counts from the end of the table, as in Python.
EmbeddingWrap(m, weight, x) ==
  LET ok == \A i \in 1..Len(x) : \A j \in 1..Len(x[i]) :
              0 - m.num_embeddings <= x[i][j] /\ x[i][j] < m.num_embeddings
  IN [ok |-> ok,
      value |-> IF ok
                  THEN [i \in 1..Len(x) |-> [j \in 1..Len(x[i]) |->
                          weight[((x[i][j] + m.num_embeddings) % m.num_embeddings) + 1]]]
                  ELSE <<>>]

\* self.embedding(x): an index outside [0, num_embeddings) is an error,
\* otherwise entry (i, j) is the table's row x[i][j].
Embedding(m, weight, x) ==
  LET ok == \A i \in 1..Len(x) : \A j \in 1..Len(x[i]) :
              0 <= x[i][j] /\ x[i][j] < m.num_embeddings
  IN [ok |-> ok,
      value |-> IF ok THEN [i \in 1..Len(x) |-> [j \in 1..Len(x[i]) |-> weight[x[i][j] + 1]]]
                ELSE <<>>]

\* One Bernoulli(1 - p) draw: 1 keeps the entry, 0 drops it.
Bernoulli(s, p, i) == IF ((s + i) * 7) % 10 >= p THEN 1 ELSE 0

\* Variant: the mask is applied whatever the mode.
DropoutAlways(t, p, train, s) ==
  [i \in 1..Len(t) |-> [j \in 1..Len(t[i]) |-> [e \in 1..Len(t[i][j]) |->
     IF p = 10 THEN 0
     ELSE (t[i][j][e] * Bernoulli(s, p, (i * Len(t[i]) + j) * Len(t[i][j]) + e) * 10)
            \div (10 - p)]]]

\* nn.Dropout: the input itself when not training; otherwise each entry is
\* dropped with probability p and the kept ones are scaled by 1 / (1 - p).
Dropout(t, p, train, s) ==
  IF ~train THEN t
  ELSE [i \in 1..Len(t) |-> [j \in 1..Len(t[i]) |-> [e \in 1..Len(t[i][j]) |->
          IF p = 10 THEN 0
          ELSE (t[i][j][e] * Bernoulli(s, p, (i * Len(t[i]) + j) * Len(t[i][j]) + e) * 10)
                 \div (10 - p)]]]

\* self.lstm(embedded): the feature axis must be input_size wide.
LSTMInputOk(m, t) ==
  \A i \in 1..Len(t) : \A j \in 1..Len(t[i]) : Len(t[i][j]) = m.input_size

\* The masks nn.LSTM samples between layers: one after every layer but the
\* last, only when training and dropout > 0.
InterLayerMasks(m, train, s) ==
  IF train /\ m.dropout > 0
    THEN [l \in 1..(m.num_layers - 1) |-> [after |-> l - 1, p |-> m.dropout, seed |-> s + l]]
    ELSE <<>>

\* h_n of nn.LSTM: shape (num_layers * num_directions, batch, hidden_size),
\* entry layer * num_directions + direction.
LSTMHidden(m, batch) ==
  LET D == NumDirections(m.bidirectional)
  IN [shape |-> <<m.num_layers * D, batch, m.hidden_size>>,
      parts |-> [k \in 1..(m.num_layers * D) |->
                   [layer |-> (k - 1) \div D, dir |-> (k - 1) % D]]]

\* seq[i] with Python's indexing: from 0, a negative i counts from the end.
PyIndex(seq, i) == IF i < 0 THEN seq[Len(seq) + i + 1] ELSE seq[i + 1]

\* hidden[i] and hidden[i, :, :]: drops the leading axis.
TensorIndex(t, i) == [shape |-> Tail(t.shape), parts |-> <<PyIndex(t.parts, i)>>]

\* torch.cat((a, b), dim=1) of two 2-D tensors.
Cat(a, b) == [shape |-> <<a.shape[1], a.shape[2] + b.shape[2]>>, parts |-> a.parts \o b.parts]

\* Variant: the unidirectional branch keeps the whole of h_n.
SelectHiddenNoIndex(m, hidden) ==
  IF m.bidirectional
    THEN Cat(TensorIndex(hidden, -2), TensorIndex(hidden, -1))
    ELSE hidden

\* Variant: the first layer's states are taken instead of the last layer's.
SelectHiddenFirst(m, hidden) ==
  IF m.bidirectional
    THEN Cat(TensorIndex(hidden, 0), TensorIndex(hidden, 1))
    ELSE TensorIndex(hidden, 0)

\* if self.lstm.bidirectional: cat(hidden[-2], hidden[-1]) else hidden[-1]
SelectHidden(m, hidden) ==
  IF m.bidirectional
    THEN Cat(TensorIndex(hidden, -2), TensorIndex(hidden, -1))
    ELSE TensorIndex(hidden, -1)

\* self.fc(hidden): the last axis must be in_features wide and becomes
\* out_features wide.
LinearInputOk(m, t) == t.shape[Len(t.shape)] = m.in_features

LinearShape(m, t) == [k \in 1..Len(t.shape) |-> IF k = Len(t.shape) THEN m.out_features ELSE t.shape[k]]

NoLogits == [shape |-> <<>>, hidden |-> [shape |-> <<>>, parts |-> <<>>], embedded |-> <<>>, inter |-> <<>>]

Logits(x, s) ==
  LET embedded == Dropout(Embedding(attrs.embedding, params[1].data, x).value,
                          attrs.dropout.p, training["dropout"], s)
      hidden == SelectHidden(attrs.lstm, LSTMHidden(attrs.lstm, Len(embedded)))
  IN [shape |-> LinearShape(attrs.fc, hidden), hidden |-> hidden, embedded |-> embedded,
      inter |-> InterLayerMasks(attrs.lstm, training["lstm"], s)]

\* Every primitive forward calls raises into the caller; nothing is caught.
ForwardOk(x) ==
  LET embedded == Embedding(attrs.embedding, params[1].data, x)
  IN
  /\ embedded.ok
  /\ LSTMInputOk(attrs.lstm, embedded.value)
  /\ LinearInputOk(attrs.fc, SelectHidden(attrs.lstm, LSTMHidden(attrs.lstm, Len(x))))

\* model(x)
Forward ==
  /\ status = "ok"
  /\ \E x \in Inputs : \E s \in Seeds :
       last' = IF ForwardOk(x)
                 THEN [valid |-> TRUE, x |-> x, status |-> "ok", logits |-> Logits(x, s)]
                 ELSE [valid |-> TRUE, x |-> x, status |-> "error", logits |-> NoLogits]
  /\ UNCHANGED <<cfg, rng, status, attrs, params, training, steps>>

Next == Construct \/ Train \/ Eval \/ OptimizerStep \/ Forward

Spec == Init /\ [][Next]_vars

NextBuild == Construct \/ Train \/ Eval \/ OptimizerStep

SpecBuild == InitBuild /\ [][NextBuild]_vars

(* ------------------------------- claims -------------------------------- *)
PaddingRow == params[1].data[attrs.embedding.padding_idx + 1]

InRange(x) ==
  \A i \in 1..Len(x) : \A j \in 1..Len(x[i]) : 0 <= x[i][j] /\ x[i][j] < cfg.vocab_size

\* C1: on a constructed model the embedding row at padding_idx is the
\* all-zero vector, right after construction and after any forward calls
\* and optimizer steps.
C1_PaddingRowZero == status = "ok" => AllZero(PaddingRow)

\* C2 as stated: construction ends in an error exactly when vocab_size <= 0,
\* or padding_idx is outside [0, vocab_size), or output_dim < 1, or
\* dropout_rate is outside [0, 1).
C2_AsStated ==
  status # "new" =>
    (status = "error" <=>
       \/ cfg.vocab_size <= 0
       \/ cfg.padding_idx < 0
       \/ cfg.padding_idx >= cfg.vocab_size
       \/ cfg.output_dim < 1
       \/ cfg.dropout_rate < 0
       \/ cfg.dropout_rate >= 10)

\* C2 amended: construction ends in an error exactly when vocab_size <= 0,
\* or padding_idx is outside [-vocab_size, vocab_size), or output_dim < 0,
\* or dropout_rate is outside [0, 1]; on success the sizes and the dropout
\* probability are stored as given and a negative padding_idx is stored as
\* vocab_size + padding_idx.
C2_ConstructionErrors ==
  /\ status # "new" =>
       (status = "error" <=>
          \/ cfg.vocab_size <= 0
          \/ cfg.padding_idx < 0 - cfg.vocab_size
          \/ cfg.padding_idx >= cfg.vocab_size
          \/ cfg.output_dim < 0
          \/ cfg.dropout_rate < 0
          \/ cfg.dropout_rate > 10)
  /\ status = "ok" =>
       /\ attrs.embedding.num_embeddings = cfg.vocab_size
       /\ attrs.fc.out_features = cfg.output_dim
       /\ attrs.dropout.p = cfg.dropout_rate
       /\ attrs.embedding.padding_idx =
            IF cfg.padding_idx < 0 THEN cfg.vocab_size + cfg.padding_idx ELSE cfg.padding_idx

C2_Witness ==
  /\ status = "ok"
  /\ cfg.padding_idx < 0
  /\ cfg.output_dim = 0
  /\ cfg.dropout_rate = 10

\* C3: the projection head's input width is hidden_dim when unidirectional
\* and 2 * hidden_dim when bidirectional, and every forward call on in-range
\* input hands the head a tensor of exactly that width.
C3_HeadWidth ==
  status = "ok" =>
    /\ attrs.fc.in_features =
         IF cfg.bidirectional THEN 2 * cfg.hidden_dim ELSE cfg.hidden_dim
    /\ (last.valid /\ InRange(last.x)) =>
         /\ last.status = "ok"
         /\ Len(last.logits.hidden.shape) = 2
         /\ last.logits.hidden.shape[2] = attrs.fc.in_features

C3_Witness ==
  /\ last.valid
  /\ last.status = "ok"
  /\ cfg.bidirectional
  /\ last.logits.hidden.shape[2] = 2 * cfg.hidden_dim

\* C4: forward on a (batch_size, seq_len) input with every index in
\* [0, vocab_size) returns a 2-D result of shape (batch_size, output_dim).
C4_OutputShape ==
  (last.valid /\ InRange(last.x)) =>
    /\ last.status = "ok"
    /\ last.logits.shape = <<Len(last.x), cfg.output_dim>>

C4_Witness ==
  /\ last.valid
  /\ last.status = "ok"
  /\ Len(last.x) = 2
  /\ Len(last.x[1]) = MaxSeq
  /\ cfg.num_layers = MaxLayers
  /\ last.logits.shape = <<2, cfg.output_dim>>

\* C5: in inference mode a forward call on the input of the previous call,
\* with no parameter update in between, returns the previous output.
C5_InferenceDeterministic ==
  [][(last.valid /\ last'.valid /\ ~training["self"] /\ last'.x = last.x)
       => (last'.status = last.status /\ last'.logits = last.logits)]_vars

C5_Witness ==
  /\ last.valid
  /\ last.status = "ok"
  /\ ~training["self"]
  /\ cfg.num_layers > 1
  /\ cfg.dropout_rate = 5
  /\ \E i \in 1..Len(last.logits.embedded) : \E j \in 1..Len(last.logits.embedded[i]) :
       ~AllZero(last.logits.embedded[i][j])

\* C6: right after construction every bias tensor (two per encoder layer
\* and direction, one for the projection head) has every entry zero.
C6_BiasesZero ==
  (status = "ok" /\ steps = 0) =>
    /\ \A k \in 1..Len(params) :
         (\E i \in 1..Len(params[k].name) : params[k].name[i] = "bias")
           => AllZero(params[k].data)
    /\ Cardinality({k \in 1..Len(params) :
                      \E i \in 1..Len(params[k].name) : params[k].name[i] = "bias"})
         = 2 * cfg.num_layers * (IF cfg.bidirectional THEN 2 ELSE 1) + 1

C6_Witness ==
  /\ status = "ok"
  /\ steps = 0
  /\ cfg.bidirectional
  /\ cfg.num_layers = MaxLayers
  /\ cfg.output_dim = 2
  /\ Len(params[Len(params)].data) = 2

\* C7: a forward call whose input holds an index below 0 or >= vocab_size
\* ends in an error, returns no logits, and leaves parameters, mode and
\* modules as they were.
C7_BadIndexFails ==
  [][(last'.valid /\ ~InRange(last'.x))
       => /\ last'.status = "error"
          /\ last'.logits = NoLogits
          /\ params' = params
          /\ training' = training
          /\ attrs' = attrs]_vars

C7_Witness ==
  /\ last.valid
  /\ last.status = "error"
  /\ \E i \in 1..Len(last.x) : \E j \in 1..Len(last.x[i]) : last.x[i][j] < 0

C9_LastLayerStates ==
  (last.valid /\ last.status = "ok") =>
    last.logits.hidden.parts =
      IF cfg.bidirectional
        THEN <<[layer |-> cfg.num_layers - 1, dir |-> 0],
               [layer |-> cfg.num_layers - 1, dir |-> 1]>>
        ELSE <<[layer |-> cfg.num_layers - 1, dir |-> 0]>>

C9_Witness ==
  /\ last.valid
  /\ last.status = "ok"
  /\ cfg.bidirectional
  /\ cfg.num_layers = MaxLayers
  /\ last.logits.hidden.parts[1].layer > 0

\* C10: the mode is one of two, training or inference, for all modules at
\* once, and changes only by a toggle; a forward call changes neither the
\* mode nor the parameters nor the configuration; the parameters of a
\* constructed model change only by an optimizer step.
C10_ForwardFrame ==
  [][/\ (last'.valid /\ last' # last)
          => (params' = params /\ training' = training /\ attrs' = attrs
              /\ cfg' = cfg /\ status' = status /\ steps' = steps)
     /\ training' # training
          => (params' = params /\ attrs' = attrs /\ cfg' = cfg /\ ~last'.valid)
     /\ (\A m \in ModuleNames : training'[m] = training'["self"])
     /\ (status = "ok" /\ params' # params) => steps' = steps + 1]_vars

C10_Witness ==
  /\ last.valid
  /\ last.status = "ok"
  /\ ~training["self"]
  /\ ~training["dropout"]
  /\ steps = MaxSteps

====
